---- MODULE Spec2Model ----
(***************************************************************************)
(* gix: the branch resolver (src/src/branch.rs) and the interactive        *)
(* selection loop (src/src/main.rs) as a state machine.                    *)
(*                                                                         *)
(* Strings are sequences of one-character strings.  Indices are 0-based    *)
(* as in the source; a Vec element i is element i + 1 of the sequence.     *)
(***************************************************************************)
EXTENDS Integers, Sequences, FiniteSets, TLC

\* ------------------------------------------------------------------ bounds
\* longest search string the model lets the user type
MaxSearchLen == 2
\* most raw refs one branch iterator yields in the resolver specification
MaxRawRefs == 2
\* tallest terminal of the model
MaxTermRows == 6

\* --------------------------------------------------------------- constants
PADDING == 2

\* usize::MAX, the value 0usize - 1 wraps to when overflow checks are off.
\* TLC's integers are 32 bits wide, so usize is modelled 31 bits wide.
USIZE_MAX == (1073741823 * 2) + 1

\* smallest terminal height for which render_branches' row arithmetic
\* (term_size.y - PADDING * 2 - 1, main.rs:200) does not underflow
MinTermRows == (PADDING * 2) + 1

TermRows == MinTermRows .. MaxTermRows

\* ------------------------------------------------------------------ strings
Chars == {"k", "j", "l", "r", "q", "c", "/", "K"}

\* char::to_lowercase over the model's alphabet
CharToLower(ch) == IF ch = "K" THEN "k" ELSE ch

\* str::to_lowercase
to_lowercase(s) == [i \in 1 .. Len(s) |-> CharToLower(s[i])]

\* str::contains(needle): needle occurs in hay as a contiguous substring
contains(hay, needle) ==
    \E off \in 0 .. (Len(hay) - Len(needle)) :
        SubSeq(hay, off + 1, off + Len(needle)) = needle

\* chars().take(n).collect()
take(s, n) == SubSeq(s, 1, IF n < Len(s) THEN n ELSE Len(s))

\* str::split_once('/'): the index of the first '/', 0 when there is none
FirstSlash(s) ==
    IF \E i \in 1 .. Len(s) : s[i] = "/"
    THEN CHOOSE i \in 1 .. Len(s) :
             s[i] = "/" /\ \A j \in 1 .. (i - 1) : s[j] # "/"
    ELSE 0

\* the name of a remote branch, rebuilt as format!("{remote}/{branch_name}")
\* from the two halves of split_once('/')
RemoteName(s) ==
    LET i == FirstSlash(s)
    IN  IF i = 0 THEN s
        ELSE SubSeq(s, 1, i - 1) \o <<"/">> \o SubSeq(s, i + 1, Len(s))

\* ------------------------------------------------------------ repository
(* The git2 repository, as far as this program reads it.  A raw ref is one *)
(* item of a Branches iterator:                                            *)
(*   iter_ok     the iterator item is Ok((branch, _))                      *)
(*   name_ok     branch.name() is Ok (names are valid UTF-8)               *)
(*   commit_ok   branch.get().peel_to_commit() is Ok                       *)
(*   remote_key  config.get_string("branch.<name>.remote") is Ok           *)
(*   merge_key   config.get_string("branch.<name>.merge") is Ok            *)
(*   upstream    branch.upstream(): "Ok", or the ErrorCode of its Err      *)
(* The repository: its local and remote raw refs, whether                  *)
(* repo.branches(type) and repo.config() succeed, and the branch HEAD      *)
(* points to (NoHead when detached or unborn).                             *)
UpstreamResults == {"Ok", "NotFound", "GenericError"}

NoHead == <<>>

RawRef(name, iter_ok, name_ok, commit_ok, remote_key, merge_key, upstream) ==
    [name |-> name, iter_ok |-> iter_ok, name_ok |-> name_ok,
     commit_ok |-> commit_ok, remote_key |-> remote_key,
     merge_key |-> merge_key, upstream |-> upstream]

\* the id and the summary of the commit a resolvable branch points to
CommitOid == <<"0", "1", "2", "3", "4", "5", "6", "7", "8">>

CommitSummary == <<"s">>

\* ------------------------------------------------------- branch.rs: items
BranchQueries == {"Local", "LocalAndRemote", "Remote"}

\* BranchItem::short_oid
short_oid(item) == take(item.oid, 7)

\* BranchItemOf with has_upstream taken from the tracking configuration
\* instead of the upstream lookup
BranchItemOf_UpstreamFromConfig(raw, branch_type, cfg_ok, head) ==
    LET name    == IF branch_type = "Remote" THEN RemoteName(raw.name)
                   ELSE raw.name
        has_cfg == cfg_ok /\ raw.remote_key /\ raw.merge_key
    IN  [name         |-> name,
         oid          |-> IF raw.commit_ok THEN CommitOid ELSE <<>>,
         summary      |-> IF raw.commit_ok THEN CommitSummary ELSE <<>>,
         is_head      |-> (head # NoHead /\ branch_type = "Local"
                           /\ raw.name = head),
         has_upstream |-> has_cfg,
         is_gone      |-> (has_cfg /\ raw.upstream = "NotFound")]

\* BranchItemOf with is_gone taken from the upstream lookup alone
BranchItemOf_GoneWithoutConfig(raw, branch_type, cfg_ok, head) ==
    LET name    == IF branch_type = "Remote" THEN RemoteName(raw.name)
                   ELSE raw.name
    IN  [name         |-> name,
         oid          |-> IF raw.commit_ok THEN CommitOid ELSE <<>>,
         summary      |-> IF raw.commit_ok THEN CommitSummary ELSE <<>>,
         is_head      |-> (head # NoHead /\ branch_type = "Local"
                           /\ raw.name = head),
         has_upstream |-> (raw.upstream = "Ok"),
         is_gone      |-> (raw.upstream = "NotFound")]

\* the body of parse_branches' loop for one raw ref whose name resolved
BranchItemOf(raw, branch_type, cfg_ok, head) ==
    LET name    == IF branch_type = "Remote" THEN RemoteName(raw.name)
                   ELSE raw.name
        has_cfg == cfg_ok /\ raw.remote_key /\ raw.merge_key
    IN  [name         |-> name,
         oid          |-> IF raw.commit_ok THEN CommitOid ELSE <<>>,
         summary      |-> IF raw.commit_ok THEN CommitSummary ELSE <<>>,
         is_head      |-> (head # NoHead /\ branch_type = "Local"
                           /\ raw.name = head),
         has_upstream |-> (raw.upstream = "Ok"),
         is_gone      |-> (has_cfg /\ raw.upstream = "NotFound")]

\* parse_branches: `while let Some(Ok((branch, _))) = branches.next()` ends
\* at the end of the iterator or at its first Err item; a ref whose name()
\* is Err is skipped
RECURSIVE ParseFrom(_, _, _, _, _)
ParseFrom(raws, i, branch_type, cfg_ok, head) ==
    IF i > Len(raws) THEN <<>>
    ELSE IF ~raws[i].iter_ok THEN <<>>
    ELSE (IF raws[i].name_ok
          THEN <<BranchItemOf(raws[i], branch_type, cfg_ok, head)>>
          ELSE <<>>)
         \o ParseFrom(raws, i + 1, branch_type, cfg_ok, head)

parse_branches(r, branch_type, acc) ==
    acc \o ParseFrom(IF branch_type = "Local" THEN r.local ELSE r.remote,
                     1, branch_type, r.cfg_ok, r.head)

\* the `if let Ok(branches) = repo.branches(Some(type))` around each call
ParseIfListed(r, branch_type, acc) ==
    IF (IF branch_type = "Local" THEN r.local_ok ELSE r.remote_ok)
    THEN parse_branches(r, branch_type, acc)
    ELSE acc

query_branches(r, branch_query) ==
    CASE branch_query = "Local"  -> ParseIfListed(r, "Local", <<>>)
      [] branch_query = "Remote" -> ParseIfListed(r, "Remote", <<>>)
      [] branch_query = "LocalAndRemote" ->
            ParseIfListed(r, "Remote", ParseIfListed(r, "Local", <<>>))

\* checkout_branch finding the name among the remote branches as well
checkout_branch_AnyType(r, name, tree_ok) ==
    /\ \/ \E i \in 1 .. Len(r.local) : r.local[i].name = name
       \/ \E i \in 1 .. Len(r.remote) : RemoteName(r.remote[i].name) = name
    /\ \A i \in 1 .. Len(r.local) :
           r.local[i].name = name => r.local[i].commit_ok
    /\ tree_ok

\* checkout_branch(repo, name): Ok iff a local branch of that name exists,
\* its commit resolves and the safe checkout of the tree goes through
\* (tree_ok: the working tree allows it); set_head then moves HEAD
checkout_branch(r, name, tree_ok) ==
    /\ \E i \in 1 .. Len(r.local) : r.local[i].name = name
    /\ \A i \in 1 .. Len(r.local) :
           r.local[i].name = name => r.local[i].commit_ok
    /\ tree_ok

\* ------------------------------------------------------- main.rs: state
VARIABLES
    pc,               \* "render" | "read": position in main's loop;
                      \* "closed" after term.close(); "panicked";
                      \* "query" | "queried" in the resolver specification
    do_run,           \* main's loop flag
    do_render,        \* main's redraw flag
    do_search,        \* TRUE in Searching mode
    repo,             \* State.repo, the repository
    items,            \* the Vec query_branches returned (resolver
                      \* specification)
    branches,         \* State.branches
    selected_row,     \* State.selected_row
    search_string,    \* State.search_string
    branch_query,     \* State.branch_query
    term_rows,        \* Term::size().y
    display,          \* what the last render drew
    wrapped,          \* a usize subtraction has wrapped: the build has no
                      \* overflow checks
    panic             \* NoPanic, or why the process panicked: <<reason>>,
                      \* and <<"checkout_failed", name>> when
                      \* checkout_branch(repo, name).unwrap() did

vars == <<pc, do_run, do_render, do_search, repo, items, branches,
          selected_row, search_string, branch_query, term_rows, display,
          wrapped, panic>>

NoPanic == <<>>

\* nothing drawn yet
Blank == [no_branches |-> FALSE, rows |-> <<>>, truncated |-> -1,
          search_line |-> FALSE]

\* the repositories the interactive specification starts from
TypicalRepo ==
    [local |-> << RawRef(<<"K", "l">>, TRUE, TRUE, TRUE, TRUE, TRUE, "Ok"),
                  RawRef(<<"r", "/", "q">>, TRUE, TRUE, TRUE, TRUE, TRUE,
                         "NotFound") >>,
     remote |-> << RawRef(<<"r", "/", "k", "l">>, TRUE, TRUE, TRUE, FALSE,
                          FALSE, "GenericError"),
                   RawRef(<<"r", "/", "q">>, TRUE, TRUE, TRUE, TRUE, TRUE,
                          "GenericError") >>,
     local_ok |-> TRUE, remote_ok |-> TRUE, cfg_ok |-> TRUE,
     head |-> <<"K", "l">>]

\* the local branches cannot be listed and the configuration cannot be read
UnlistableRepo ==
    [local |-> << RawRef(<<"k", "l">>, TRUE, TRUE, TRUE, TRUE, TRUE, "Ok") >>,
     remote |-> << RawRef(<<"r", "/", "k", "l">>, TRUE, TRUE, TRUE, FALSE,
                          FALSE, "GenericError") >>,
     local_ok |-> FALSE, remote_ok |-> TRUE, cfg_ok |-> FALSE,
     head |-> NoHead]

\* a ref without a commit, a ref without a name, and an iterator error
DamagedRepo ==
    [local |-> << RawRef(<<"c", "j">>, TRUE, TRUE, FALSE, FALSE, FALSE,
                         "NotFound"),
                  RawRef(<<"q">>, TRUE, FALSE, TRUE, FALSE, FALSE,
                         "NotFound"),
                  RawRef(<<"k", "j">>, TRUE, TRUE, TRUE, TRUE, FALSE,
                         "NotFound"),
                  RawRef(<<"l">>, FALSE, TRUE, TRUE, FALSE, FALSE,
                         "NotFound"),
                  RawRef(<<"l", "k">>, TRUE, TRUE, TRUE, FALSE, FALSE,
                         "NotFound") >>,
     remote |-> <<>>,
     local_ok |-> TRUE, remote_ok |-> TRUE, cfg_ok |-> TRUE,
     head |-> <<"k", "j">>]

RepoSet == {TypicalRepo, UnlistableRepo, DamagedRepo}

Init ==
    /\ pc = "render"
    /\ do_run = TRUE
    /\ do_render = TRUE
    /\ do_search = FALSE
    /\ repo \in RepoSet
    /\ items = <<>>
    /\ branches = <<>>
    /\ selected_row = 0
    /\ search_string = <<>>
    /\ branch_query = "Local"
    /\ term_rows \in TermRows
    /\ display = Blank
    /\ wrapped = FALSE
    /\ panic = NoPanic

\* ------------------------------------------------ main.rs: render_branches
\* the filter closure of render_branches; its `if is_empty() { true; }` is
\* a statement without effect, the closure's value is the contains(..) test
\* matches_search with the search string not lowercased
matches_search_RawNeedle(b, search) ==
    contains(to_lowercase(b.name), search)

matches_search(b, search) ==
    contains(to_lowercase(b.name), to_lowercase(search))

filter_branches(all, search) ==
    SelectSeq(all, LAMBDA b : matches_search(b, search))

\* `if selected_row > len { selected_row = len - 1 }`: TRUE when the
\* subtraction overflows (len = 0)
ClampOverflows(sel, n) == sel > n /\ n = 0

clamp_selected_row(sel, n) ==
    IF sel > n
    THEN (IF n = 0 THEN USIZE_MAX ELSE n - 1)
    ELSE sel

\* the rows render_branches writes: row i, for branch i, at line max_y - i
\* with its marker, colour and annotations (its texts are those of branch
\* i), up to the first i > term_size.y - PADDING * 2 - 1, where the
\* truncation line is written instead with the count n_branches - i - 1
DrawBranches(bs, sel, rows, search_line) ==
    LET n     == Len(bs)
        max_y == (rows - 1) - PADDING
        limit == rows - (PADDING * 2) - 1
        shown == IF n > limit + 1 THEN limit + 1 ELSE n
    IN  [no_branches |-> (n = 0),
         rows        |-> [i \in 1 .. shown |->
                            [y           |-> max_y - (i - 1),
                             prefix      |-> IF i - 1 = sel THEN ">" ELSE " ",
                             is_head     |-> bs[i].is_head,
                             no_upstream |-> ~bs[i].has_upstream,
                             gone        |-> bs[i].is_gone]],
         truncated   |-> IF n > limit + 1 THEN n - (limit + 1) - 1 ELSE -1,
         search_line |-> search_line]

\* the top of main's loop with do_render set: render_branches, then the
\* search line.  `len - 1` with len = 0 panics in a build with overflow
\* checks (the debug profile) and wraps to usize::MAX in one without (the
\* release profile).  Which build runs is learnt at the first overflow:
\* once a subtraction has wrapped, every later one wraps
Render ==
    /\ pc = "render"
    /\ do_render
    /\ LET all == query_branches(repo, branch_query)
           bs  == filter_branches(all, search_string)
           n   == Len(bs)
       IN  /\ branches' = bs
           /\ \E overflow_checks \in
                  (IF ClampOverflows(selected_row, n) /\ ~wrapped
                   THEN BOOLEAN ELSE {FALSE}) :
              IF overflow_checks
              THEN /\ pc' = "panicked"
                   /\ panic' = <<"subtract_with_overflow">>
                   /\ UNCHANGED <<selected_row, display, do_render, wrapped>>
              ELSE /\ selected_row' = clamp_selected_row(selected_row, n)
                   /\ wrapped' = (wrapped \/ ClampOverflows(selected_row, n))
                   /\ display' = DrawBranches(bs, selected_row', term_rows,
                                     do_search \/ search_string # <<>>)
                   /\ do_render' = FALSE
                   /\ pc' = "read"
                   /\ UNCHANGED panic
    /\ UNCHANGED <<do_run, do_search, repo, items, search_string,
                   branch_query, term_rows>>

\* the top of main's loop with do_render clear
NoRender ==
    /\ pc = "render"
    /\ ~do_render
    /\ pc' = "read"
    /\ UNCHANGED <<do_run, do_render, do_search, repo, items, branches,
                   selected_row, search_string, branch_query, term_rows,
                   display, wrapped, panic>>

\* ------------------------------------------------------- crossterm events
Char(c) == <<"Char", c>>

KeyCodes == {Char(c) : c \in Chars}
            \cup {<<"Backspace">>, <<"Esc">>, <<"Enter">>, <<"Tab">>}

KeyModifiers == {"NONE", "CONTROL"}

KeyEventKinds == {"Press", "Release"}

KeyEvents == [type : {"Key"}, code : KeyCodes, modifiers : KeyModifiers,
              kind : KeyEventKinds]

ResizeEvents == [type : {"Resize"}, rows : TermRows]

OtherEvents == {[type |-> "FocusGained"]}

\* read_event can return an event of the class E (the last conjunct of an
\* action: what the action does depends on the class only)
Arrives(E) == E # {}

IsKey(e, code) == e.type = "Key" /\ e.code = code

\* IsQuit with the Esc pattern left out of the arm
IsQuit_WithoutEsc(e) ==
    \/ IsKey(e, Char("q"))
    \/ (IsKey(e, Char("c")) /\ e.modifiers = "CONTROL")

\* the first arm of handle_branch_event: 'q', Ctrl+C or Esc
IsQuit(e) ==
    \/ IsKey(e, Char("q"))
    \/ (IsKey(e, Char("c")) /\ e.modifiers = "CONTROL")
    \/ IsKey(e, <<"Esc">>)

\* the keys handle_branch_event has an arm for
IsBranchKey(e) ==
    \/ IsQuit(e)
    \/ \E c \in {"k", "j", "l", "/", "r"} : IsKey(e, Char(c))

\* what every step of main's loop after the render leaves alone
LoopFrame == UNCHANGED <<items, display, wrapped>>

\* the loop goes round (do_run still set) or ends with term.close()
NextPc(run) == IF run THEN "render" ELSE "closed"

\* term.read_event returned None: the poll timed out
Timeout ==
    /\ pc = "read"
    /\ pc' = NextPc(do_run)
    /\ LoopFrame
    /\ UNCHANGED <<do_run, do_render, do_search, repo, branches,
                   selected_row, search_string, branch_query, term_rows,
                   panic>>

\* -------------------------------------------- main.rs: the Searching arm
\* `if let Event::Key(key_event) = event` fails: the event is dropped; a
\* resize has changed the terminal all the same
SearchNonKey ==
    /\ pc = "read"
    /\ do_search
    /\ \E e \in ResizeEvents \cup OtherEvents :
           term_rows' = IF e.type = "Resize" THEN e.rows ELSE term_rows
    /\ pc' = NextPc(do_run)
    /\ LoopFrame
    /\ UNCHANGED <<do_run, do_render, do_search, repo, branches,
                   selected_row, search_string, branch_query, panic>>

\* a key event whose kind is not Press is dropped
SearchNonPress ==
    /\ pc = "read"
    /\ do_search
    /\ pc' = NextPc(do_run)
    /\ LoopFrame
    /\ UNCHANGED <<do_run, do_render, do_search, repo, branches,
                   selected_row, search_string, branch_query, term_rows,
                   panic>>
    /\ Arrives({e \in KeyEvents : e.kind # "Press"})

\* push at the front of the string
push_Front(s, c) == <<c>> \o s

\* String::push
push(s, c) == Append(s, c)

\* String::pop: removes the last character, if any
pop(s) == IF s = <<>> THEN s ELSE SubSeq(s, 1, Len(s) - 1)

\* SearchKeyEffect with an Esc arm that only leaves Searching mode
SearchKeyEffect_EscKeepsString(code) ==
    CASE code[1] = "Char" ->
            /\ Len(search_string) < MaxSearchLen
            /\ search_string' = push(search_string, code[2])
            /\ UNCHANGED do_search
      [] code = <<"Backspace">> ->
            /\ search_string' = pop(search_string)
            /\ UNCHANGED do_search
      [] code \in {<<"Esc">>, <<"Enter">>} ->
            /\ do_search' = FALSE
            /\ UNCHANGED search_string
      [] OTHER ->
            UNCHANGED <<search_string, do_search>>

\* the effect of a pressed key in Searching mode, by its code
SearchKeyEffect(code) ==
    CASE code[1] = "Char" ->
            /\ Len(search_string) < MaxSearchLen
            /\ search_string' = push(search_string, code[2])
            /\ UNCHANGED do_search
      [] code = <<"Backspace">> ->
            /\ search_string' = pop(search_string)
            /\ UNCHANGED do_search
      [] code = <<"Esc">> ->
            /\ search_string' = <<>>
            /\ do_search' = FALSE
      [] code = <<"Enter">> ->
            /\ do_search' = FALSE
            /\ UNCHANGED search_string
      [] OTHER ->
            UNCHANGED <<search_string, do_search>>

\* SearchKey with 'k' also moving the selection
SearchKey_MovesOnK(code) ==
    /\ pc = "read"
    /\ do_search
    /\ SearchKeyEffect(code)
    /\ selected_row' = IF code = <<"Char", "k">> THEN selected_row + 1
                       ELSE selected_row
    /\ do_render' = TRUE
    /\ pc' = NextPc(do_run)
    /\ LoopFrame
    /\ UNCHANGED <<do_run, repo, branches, branch_query, term_rows, panic>>
    /\ Arrives({e \in KeyEvents : e.kind = "Press" /\ e.code = code})

SearchKey(code) ==
    /\ pc = "read"
    /\ do_search
    /\ SearchKeyEffect(code)
    /\ do_render' = TRUE
    /\ pc' = NextPc(do_run)
    /\ LoopFrame
    /\ UNCHANGED <<do_run, repo, branches, selected_row, branch_query,
                   term_rows, panic>>
    /\ Arrives({e \in KeyEvents : e.kind = "Press" /\ e.code = code})

SearchChar == \E c \in Chars : SearchKey(Char(c))

SearchBackspace == SearchKey(<<"Backspace">>)

SearchEsc == SearchKey(<<"Esc">>)

SearchEnter == SearchKey(<<"Enter">>)

SearchOtherKey == SearchKey(<<"Tab">>)

\* --------------------------------------- main.rs: handle_branch_event
\* the 'k' arm: the row after, the first row after the last
move_next(sel, n) == IF sel = n - 1 THEN 0 ELSE sel + 1

\* the 'j' arm: the row before, the last row before the first
move_previous(sel, n) == IF sel = 0 THEN n - 1 ELSE sel - 1

\* cycle_scope going round the other way
cycle_scope_Backwards(q) ==
    CASE q = "Local"          -> "Remote"
      [] q = "Remote"         -> "LocalAndRemote"
      [] q = "LocalAndRemote" -> "Local"

\* the 'r' arm
cycle_scope(q) ==
    CASE q = "Local"          -> "LocalAndRemote"
      [] q = "LocalAndRemote" -> "Remote"
      [] q = "Remote"         -> "Local"

BrowseQuit ==
    /\ pc = "read"
    /\ ~do_search
    /\ do_run' = FALSE
    /\ pc' = NextPc(do_run')
    /\ LoopFrame
    /\ UNCHANGED <<do_render, do_search, repo, branches, selected_row,
                   search_string, branch_query, term_rows, panic>>
    /\ Arrives({e \in KeyEvents : IsQuit(e)})

BrowseResize ==
    /\ pc = "read"
    /\ ~do_search
    /\ \E e \in ResizeEvents : term_rows' = e.rows
    /\ do_render' = TRUE
    /\ pc' = NextPc(do_run)
    /\ LoopFrame
    /\ UNCHANGED <<do_run, do_search, repo, branches, selected_row,
                   search_string, branch_query, panic>>

\* a move key, moved being the row it moves to: nothing at all on an
\* empty list
BrowseMove(c, moved) ==
    /\ pc = "read"
    /\ ~do_search
    /\ IF Len(branches) # 0
       THEN /\ selected_row' = moved
            /\ do_render' = TRUE
       ELSE UNCHANGED <<selected_row, do_render>>
    /\ pc' = NextPc(do_run)
    /\ LoopFrame
    /\ UNCHANGED <<do_run, do_search, repo, branches, search_string,
                   branch_query, term_rows, panic>>
    /\ Arrives({e \in KeyEvents : IsKey(e, Char(c))})

MoveNext == BrowseMove("k", move_next(selected_row, Len(branches)))

MovePrevious ==
    BrowseMove("j", move_previous(selected_row, Len(branches)))

\* Checkout with the Err of checkout_branch dropped instead of unwrapped
Checkout_IgnoresFailure ==
    /\ pc = "read"
    /\ ~do_search
    /\ IF Len(branches) = 0
       THEN /\ pc' = NextPc(do_run)
            /\ UNCHANGED <<do_render, repo, panic>>
       ELSE IF selected_row >= Len(branches)
       THEN /\ pc' = "panicked"
            /\ panic' = <<"index_out_of_bounds">>
            /\ UNCHANGED <<do_render, repo>>
       ELSE LET name == branches[selected_row + 1].name
            IN  \E tree_ok \in BOOLEAN :
                    /\ repo' = IF checkout_branch(repo, name, tree_ok)
                               THEN [repo EXCEPT !.head = name] ELSE repo
                    /\ do_render' = TRUE
                    /\ pc' = NextPc(do_run)
                    /\ UNCHANGED panic
    /\ LoopFrame
    /\ UNCHANGED <<do_run, do_search, branches, selected_row, search_string,
                   branch_query, term_rows>>
    /\ Arrives({e \in KeyEvents : IsKey(e, Char("l"))})

\* the 'l' arm: state.branches[state.selected_row] panics out of bounds,
\* checkout_branch(..).unwrap() panics on Err
Checkout ==
    /\ pc = "read"
    /\ ~do_search
    /\ IF Len(branches) = 0
       THEN /\ pc' = NextPc(do_run)
            /\ UNCHANGED <<do_render, repo, panic>>
       ELSE IF selected_row >= Len(branches)
       THEN /\ pc' = "panicked"
            /\ panic' = <<"index_out_of_bounds">>
            /\ UNCHANGED <<do_render, repo>>
       ELSE LET name == branches[selected_row + 1].name
            IN  \E tree_ok \in BOOLEAN :
                    IF checkout_branch(repo, name, tree_ok)
                    THEN /\ repo' = [repo EXCEPT !.head = name]
                         /\ do_render' = TRUE
                         /\ pc' = NextPc(do_run)
                         /\ UNCHANGED panic
                    ELSE /\ pc' = "panicked"
                         /\ panic' = <<"checkout_failed", name>>
                         /\ UNCHANGED <<do_render, repo>>
    /\ LoopFrame
    /\ UNCHANGED <<do_run, do_search, branches, selected_row, search_string,
                   branch_query, term_rows>>
    /\ Arrives({e \in KeyEvents : IsKey(e, Char("l"))})

\* StartSearch starting from an empty search string
StartSearch_ClearsString ==
    /\ pc = "read"
    /\ ~do_search
    /\ do_search' = TRUE
    /\ do_render' = TRUE
    /\ search_string' = <<>>
    /\ pc' = NextPc(do_run)
    /\ LoopFrame
    /\ UNCHANGED <<do_run, repo, branches, selected_row, branch_query,
                   term_rows, panic>>
    /\ Arrives({e \in KeyEvents : IsKey(e, Char("/"))})

StartSearch ==
    /\ pc = "read"
    /\ ~do_search
    /\ do_search' = TRUE
    /\ do_render' = TRUE
    /\ pc' = NextPc(do_run)
    /\ LoopFrame
    /\ UNCHANGED <<do_run, repo, branches, selected_row, search_string,
                   branch_query, term_rows, panic>>
    /\ Arrives({e \in KeyEvents : IsKey(e, Char("/"))})

\* CycleScope without the redraw flag
CycleScope_NoRedraw ==
    /\ pc = "read"
    /\ ~do_search
    /\ branch_query' = cycle_scope(branch_query)
    /\ pc' = NextPc(do_run)
    /\ LoopFrame
    /\ UNCHANGED <<do_run, do_render, do_search, repo, branches,
                   selected_row, search_string, term_rows, panic>>
    /\ Arrives({e \in KeyEvents : IsKey(e, Char("r"))})

CycleScope ==
    /\ pc = "read"
    /\ ~do_search
    /\ branch_query' = cycle_scope(branch_query)
    /\ do_render' = TRUE
    /\ pc' = NextPc(do_run)
    /\ LoopFrame
    /\ UNCHANGED <<do_run, do_search, repo, branches, selected_row,
                   search_string, term_rows, panic>>
    /\ Arrives({e \in KeyEvents : IsKey(e, Char("r"))})

\* the `_ => {}` arm: any other key, any other event
BrowseOther ==
    /\ pc = "read"
    /\ ~do_search
    /\ pc' = NextPc(do_run)
    /\ LoopFrame
    /\ UNCHANGED <<do_run, do_render, do_search, repo, branches,
                   selected_row, search_string, branch_query, term_rows,
                   panic>>
    /\ Arrives({e \in KeyEvents \cup OtherEvents : ~IsBranchKey(e)})

\* the Searching arm of main's loop, for the event read
HandleSearching(e) ==
    IF e.type = "Key"
    THEN (IF e.kind = "Press" THEN SearchKey(e.code) ELSE SearchNonPress)
    ELSE /\ SearchNonKey
         /\ term_rows' = IF e.type = "Resize" THEN e.rows ELSE term_rows

\* the match of handle_branch_event, for the event read
handle_branch_event(e) ==
    CASE IsQuit(e)            -> BrowseQuit
      [] e.type = "Resize"    -> BrowseResize /\ term_rows' = e.rows
      [] IsKey(e, Char("k"))  -> MoveNext
      [] IsKey(e, Char("j"))  -> MovePrevious
      [] IsKey(e, Char("l"))  -> Checkout
      [] IsKey(e, Char("/"))  -> StartSearch
      [] IsKey(e, Char("r"))  -> CycleScope
      [] OTHER                -> BrowseOther

\* the step of main's loop that read_event returning Some(e) leads to
Handles(e) ==
    /\ pc = "read"
    /\ IF do_search THEN HandleSearching(e) ELSE handle_branch_event(e)

Next ==
    \/ Render
    \/ NoRender
    \/ Timeout
    \/ SearchNonKey
    \/ SearchNonPress
    \/ SearchChar
    \/ SearchBackspace
    \/ SearchEsc
    \/ SearchEnter
    \/ SearchOtherKey
    \/ BrowseQuit
    \/ BrowseResize
    \/ MoveNext
    \/ MovePrevious
    \/ Checkout
    \/ StartSearch
    \/ CycleScope
    \/ BrowseOther

Spec == Init /\ [][Next]_vars

\* ------------------------------------------- the resolver on its own
(* query_branches applied to every repository whose local iterator yields  *)
(* up to MaxRawRefs raw refs of any kind, under every branch query.        *)

\* the name of the i-th local branch: k, kl, kll, ...
LocalNameAt(i) == [j \in 1 .. i |-> IF j = 1 THEN "k" ELSE "l"]

\* the raw refs an iterator can yield for one name: an Err item, a ref
\* whose name() is Err, or a named ref with any commit, configuration and
\* upstream outcome
RawRefsNamed(name) ==
    {RawRef(name, FALSE, TRUE, TRUE, FALSE, FALSE, "NotFound"),
     RawRef(name, TRUE, FALSE, TRUE, FALSE, FALSE, "NotFound")}
    \cup {RawRef(name, TRUE, TRUE, c, rk, mk, u) :
              c \in BOOLEAN, rk \in BOOLEAN, mk \in BOOLEAN,
              u \in UpstreamResults}

RawSeqs(n) == [i \in 1 .. n |-> RawRefsNamed(LocalNameAt(i))]

\* all sequences <<r1, .., rn>> with ri \in sets[i]
RECURSIVE SeqsOver(_)
SeqsOver(sets) ==
    IF sets = <<>> THEN {<<>>}
    ELSE {Append(s, r) : s \in SeqsOver(SubSeq(sets, 1, Len(sets) - 1)),
                         r \in sets[Len(sets)]}

LocalRawSeqs == UNION {SeqsOver(RawSeqs(n)) : n \in 0 .. MaxRawRefs}

ResolverRemote ==
    << RawRef(<<"r", "/", "k">>, TRUE, TRUE, TRUE, FALSE, FALSE,
              "GenericError") >>

InitResolver ==
    /\ pc = "query"
    /\ do_run = TRUE
    /\ do_render = TRUE
    /\ do_search = FALSE
    /\ \E loc \in LocalRawSeqs, lok \in BOOLEAN, rok \in BOOLEAN,
          cok \in BOOLEAN :
           repo = [local |-> loc, remote |-> ResolverRemote,
                   local_ok |-> lok, remote_ok |-> rok, cfg_ok |-> cok,
                   head |-> LocalNameAt(1)]
    /\ items = <<>>
    /\ branches = <<>>
    /\ selected_row = 0
    /\ search_string = <<>>
    /\ branch_query \in BranchQueries
    /\ term_rows = MinTermRows
    /\ display = Blank
    /\ wrapped = FALSE
    /\ panic = NoPanic

Query ==
    /\ pc = "query"
    /\ items' = query_branches(repo, branch_query)
    /\ pc' = "queried"
    /\ UNCHANGED <<do_run, do_render, do_search, repo, branches,
                   selected_row, search_string, branch_query, term_rows,
                   display, wrapped, panic>>

NextResolver == Query

SpecResolver == InitResolver /\ [][NextResolver]_vars

\* ------------------------------------------------------------ the claims

\* C1: after every refresh, whenever the visible list is non-empty,
\* 0 <= selected_row < len(branches).
C1_SelectionInBounds ==
    (pc = "read" /\ branches # <<>>) => selected_row < Len(branches)

\* C2: in Browsing mode the checkout input, on a non-empty visible list,
\* calls checkout with the name of the item at selected_row, which is an
\* index of the list; on an empty list it does nothing.
C2_CheckoutSelected ==
    [][Checkout =>
          IF branches = <<>>
          THEN UNCHANGED <<do_run, do_render, do_search, repo, branches,
                           selected_row, search_string, branch_query, panic>>
          ELSE /\ selected_row < Len(branches)
               /\ \/ (panic' = NoPanic
                      /\ repo'.head = branches[selected_row + 1].name)
                  \/ panic' = <<"checkout_failed",
                                branches[selected_row + 1].name>>]_vars

\* C3: a refresh that produces an empty visible list completes without a
\* crash, draws the "no branches" indicator, and the loop goes on to read
\* input.
C3_EmptyListDrawn ==
    (branches = <<>> /\ pc \in {"read", "panicked"})
        => (pc = "read" /\ display.no_branches)

\* a raw ref the claim calls malformed: an Err item or an unresolvable name
Malformed(raw) == ~raw.iter_ok \/ ~raw.name_ok

\* C4: when exactly one raw ref of the listed sequence is malformed, every
\* well-formed ref of the sequence, before or after it, has an entry.
C4_BadRefDoesNotTruncate ==
    (/\ pc = "queried"
     /\ branch_query = "Local"
     /\ repo.local_ok
     /\ Cardinality({i \in 1 .. Len(repo.local) :
                        Malformed(repo.local[i])}) = 1)
        => \A i \in 1 .. Len(repo.local) :
               ~Malformed(repo.local[i])
                   => \E j \in 1 .. Len(items) :
                          items[j].name = repo.local[i].name

\* the quit inputs: a press of 'q', of Ctrl+C or of escape
QuitInputs ==
    {e \in KeyEvents :
        /\ e.kind = "Press"
        /\ \/ e.code = Char("q")
           \/ (e.code = Char("c") /\ e.modifiers = "CONTROL")
           \/ e.code = <<"Esc">>}

C6_ResizeRedraws ==
    [][\A e \in ResizeEvents :
          Handles(e) => /\ do_render'
                        /\ UNCHANGED <<do_search, search_string,
                                       selected_row, branch_query>>]_vars

\* a and b are the same letter, whatever their case
SameLetter(a, b) ==
    \/ a = b
    \/ <<a, b>> \in {<<"k", "K">>, <<"K", "k">>}

\* s occurs in name, case ignored
OccursIgnoringCase(name, s) ==
    \E off \in 0 .. (Len(name) - Len(s)) :
        \A k \in 1 .. Len(s) : SameLetter(name[off + k], s[k])

\* C7: after a refresh the visible list is the subsequence of the
\* resolver's result whose names contain search_string, case ignored, in
\* the original order; all of it when search_string is empty.
C7_VisibleIsFiltered ==
    pc = "read" =>
        LET all == query_branches(repo, branch_query)
            hit == {i \in 1 .. Len(all) :
                       OccursIgnoringCase(all[i].name, search_string)}
        IN  /\ Len(branches) = Cardinality(hit)
            /\ \A j \in 1 .. Len(branches) :
                   \E i \in hit :
                       /\ Cardinality({m \in hit : m < i}) = j - 1
                       /\ branches[j] = all[i]
            /\ (search_string = <<>> => branches = all)

C7_Witness ==
    /\ pc = "read"
    /\ search_string = <<"K">>
    /\ Len(branches) = 2
    /\ Len(query_branches(repo, branch_query)) = 4

\* k times: a move, then the refresh that follows it, on a list of n items
RECURSIVE NextTimes(_, _, _)
NextTimes(sel, n, k) ==
    IF k = 0 THEN sel
    ELSE NextTimes(clamp_selected_row(move_next(sel, n), n), n, k - 1)

RECURSIVE PreviousTimes(_, _, _)
PreviousTimes(sel, n, k) ==
    IF k = 0 THEN sel
    ELSE PreviousTimes(clamp_selected_row(move_previous(sel, n), n), n, k - 1)

\* C8: in every reachable state with a non-empty visible list of length n,
\* n "next" moves in a row return selected_row to its value, and so do n
\* "previous" moves.
C8_MovesCycle ==
    (pc = "read" /\ ~do_search /\ branches # <<>>) =>
        /\ NextTimes(selected_row, Len(branches), Len(branches))
               = selected_row
        /\ PreviousTimes(selected_row, Len(branches), Len(branches))
               = selected_row

\* C9: one move wraps around and lands on a valid index; on an empty list
\* it changes neither the index nor the redraw flag.
C9_MoveWraps ==
    [][LET n == Len(branches)
       IN  /\ MoveNext =>
                  IF n = 0 THEN UNCHANGED <<selected_row, do_render>>
                  ELSE /\ selected_row' =
                              IF selected_row = n - 1 THEN 0
                              ELSE selected_row + 1
                       /\ selected_row' < n
           /\ MovePrevious =>
                  IF n = 0 THEN UNCHANGED <<selected_row, do_render>>
                  ELSE /\ selected_row' =
                              IF selected_row = 0 THEN n - 1
                              ELSE selected_row - 1
                       /\ selected_row' < n]_vars

\* C10: every item the resolver emits has is_gone => ~has_upstream.
C10_GoneHasNoUpstream ==
    \A i \in 1 .. Len(items) : items[i].is_gone => ~items[i].has_upstream

C10_Witness ==
    /\ pc = "queried"
    /\ \E i \in 1 .. Len(items) : items[i].is_gone
    /\ \E i \in 1 .. Len(items) : items[i].has_upstream

\* the raw refs of the repository an item of the given name was made from
\* (names are unique in the resolver specification)
SourceRefs(r, name) ==
    {r.local[i] : i \in {j \in 1 .. Len(r.local) : r.local[j].name = name}}
    \cup {r.remote[i] : i \in {j \in 1 .. Len(r.remote) :
                                   RemoteName(r.remote[j].name) = name}}

\* both branch.<name>.remote and branch.<name>.merge can be read
HasTrackingConfig(r, raw) == r.cfg_ok /\ raw.remote_key /\ raw.merge_key

\* C11: every item made from a ref without tracking configuration has
\* has_upstream = FALSE and is_gone = FALSE, whatever upstream() returned.
C11_NoConfigNoUpstream ==
    pc = "queried" =>
        \A i \in 1 .. Len(items) :
            \A raw \in SourceRefs(repo, items[i].name) :
                ~HasTrackingConfig(repo, raw)
                    => (~items[i].has_upstream /\ ~items[i].is_gone)

\* C12: for every item made from a ref with tracking configuration,
\* upstream() Ok gives has_upstream and not is_gone, Err(NotFound) gives
\* is_gone and not has_upstream, any other Err gives neither; and is_gone
\* holds exactly for configuration present with Err(NotFound).
C12_ConfiguredUpstream ==
    pc = "queried" =>
        \A i \in 1 .. Len(items) :
            \A raw \in SourceRefs(repo, items[i].name) :
                /\ HasTrackingConfig(repo, raw) =>
                       CASE raw.upstream = "Ok" ->
                               items[i].has_upstream /\ ~items[i].is_gone
                         [] raw.upstream = "NotFound" ->
                               items[i].is_gone /\ ~items[i].has_upstream
                         [] OTHER ->
                               ~items[i].is_gone /\ ~items[i].has_upstream
                /\ items[i].is_gone <=>
                       (HasTrackingConfig(repo, raw)
                        /\ raw.upstream = "NotFound")

\* two configured refs were listed, one resolving and one gone
C12_Witness ==
    /\ pc = "queried"
    /\ \E i, j \in 1 .. Len(items) :
           /\ \E raw \in SourceRefs(repo, items[i].name) :
                  HasTrackingConfig(repo, raw) /\ raw.upstream = "Ok"
           /\ \E raw \in SourceRefs(repo, items[j].name) :
                  HasTrackingConfig(repo, raw) /\ raw.upstream = "NotFound"

\* the visible list a refresh in the current state stores
Refreshed ==
    filter_branches(query_branches(repo, branch_query), search_string)

\* a refresh in the current state can panic: its clamp overflows and no
\* subtraction has wrapped yet
RefreshCanCrash == ClampOverflows(selected_row, Len(Refreshed)) /\ ~wrapped

\* C13: the cancel input in Searching mode empties search_string, switches
\* to Browsing and leaves the loop running with a refresh due; that
\* refresh cannot crash and stores the full resolved list of the scope.
C13_CancelClearsSearch ==
    [][/\ SearchEsc =>
             /\ search_string' = <<>>
             /\ ~do_search'
             /\ do_run' /\ pc' = "render" /\ do_render'
             /\ ~RefreshCanCrash'
             /\ Refreshed' = query_branches(repo', branch_query')
       /\ (Render /\ ~RefreshCanCrash) =>
             /\ pc' = "read" /\ do_run'
             /\ branches' = Refreshed]_vars

\* right after a cancel: the last render was in Searching mode and its
\* filter hid a branch; now the mode is Browsing, the string is empty and
\* a refresh is due
C13_Witness ==
    /\ pc = "render" /\ do_render
    /\ ~do_search /\ search_string = <<>>
    /\ display.search_line
    /\ Len(branches) < Len(query_branches(repo, branch_query))

\* C14: the start-search input moves Browsing to Searching and the confirm
\* input moves Searching to Browsing, both leaving search_string as it
\* is; no step taken in Browsing mode alters search_string, and every
\* completed refresh filters by it.
C14_SearchStringRetained ==
    [][/\ StartSearch =>
             (do_search' /\ do_render' /\ UNCHANGED search_string)
       /\ SearchEnter =>
             (~do_search' /\ do_render' /\ UNCHANGED search_string)
       /\ ~do_search => UNCHANGED search_string
       /\ (Render /\ pc' = "read") =>
             \A i \in 1 .. Len(branches') :
                 OccursIgnoringCase(branches'[i].name, search_string)]_vars

\* Browsing mode after a refresh, with a search string that hides a branch
C14_Witness ==
    /\ pc = "read"
    /\ ~do_search
    /\ search_string # <<>>
    /\ display.search_line
    /\ branches # <<>>
    /\ Len(branches) < Len(query_branches(repo, branch_query))

\* C15: in Searching mode a pressed character key appends that character
\* to search_string and the erase key removes its last character, if any;
\* the mode stays Searching and the loop renders before it reads again.
C15_SearchEdits ==
    [][/\ \A c \in Chars :
              SearchKey(Char(c)) =>
                  /\ search_string' = search_string \o <<c>>
                  /\ do_search' /\ pc' = "render" /\ do_render'
       /\ SearchBackspace =>
              /\ IF search_string = <<>> THEN search_string' = <<>>
                 ELSE /\ Len(search_string') = Len(search_string) - 1
                      /\ \A i \in 1 .. Len(search_string') :
                             search_string'[i] = search_string[i]
              /\ do_search' /\ pc' = "render" /\ do_render']_vars

\* "jk" has just been typed: the list on record is still the one
\* filtered by "j"
C15_Witness ==
    /\ pc = "render" /\ do_render
    /\ do_search
    /\ search_string = <<"j", "k">>
    /\ branches # <<>>

\* C16: no step that handles an input in Searching mode changes the
\* selection or the scope, or checks a branch out.
C16_SearchingOnlyEdits ==
    [][(pc = "read" /\ do_search) =>
           /\ UNCHANGED <<selected_row, branch_query, repo, panic>>
           /\ pc' # "panicked"]_vars

\* the checkout key and the scope key have been typed as search characters
C16_Witness ==
    /\ do_search
    /\ search_string = <<"l", "r">>
    /\ pc = "render"

\* C17: a checkout that fails ends the process: the step panics with the
\* name that was tried, nothing else moves, and no step follows a panic.
C17_FailedCheckoutFatal ==
    [][/\ (Checkout /\ branches # <<>> /\ selected_row < Len(branches)) =>
             LET name == branches[selected_row + 1].name
             IN  IF pc' = "panicked"
                 THEN /\ panic' = <<"checkout_failed", name>>
                      /\ UNCHANGED <<repo, do_render, branches,
                                     selected_row>>
                 ELSE /\ checkout_branch(repo, name, TRUE)
                      /\ repo'.head = name
                      /\ panic' = NoPanic
       /\ pc # "panicked"]_vars

\* the checkout of a remote item with no local branch of its name failed
C17_Witness ==
    /\ pc = "panicked"
    /\ panic = <<"checkout_failed", <<"r", "/", "k", "l">>>>

\* C18: a completed refresh leaves selected_row as it was when that is an
\* index of the new list, and sets it to the last index when it is not and
\* the new list is not empty.
C18_RefreshKeepsOrClamps ==
    [][(Render /\ pc' = "read") =>
           LET n == Len(branches')
           IN  /\ selected_row < n => selected_row' = selected_row
               /\ (selected_row >= n /\ n > 0) => selected_row' = n - 1]_vars

\* C19: the scope starts as Local; the cycle-scope input takes Local to
\* LocalAndRemote, LocalAndRemote to Remote and Remote to Local, so three
\* of them restore the scope; the loop then renders before it reads again,
\* and that refresh lists the new scope.
C19_ScopeCycles ==
    /\ branch_query = "Local"
    /\ [][(CycleScope =>
              /\ branch_query' =
                     (CASE branch_query = "Local" -> "LocalAndRemote"
                        [] branch_query = "LocalAndRemote" -> "Remote"
                        [] branch_query = "Remote" -> "Local")
              /\ cycle_scope(cycle_scope(branch_query')) = branch_query
              /\ pc' = "render" /\ do_render')
          /\ ((Render /\ pc' = "read") =>
                 branches' = filter_branches(
                                 query_branches(repo, branch_query),
                                 search_string))]_vars

\* two cycle-scope inputs and a refresh later: the remote branches alone
C19_Witness ==
    /\ pc = "read"
    /\ branch_query = "Remote"
    /\ search_string = <<>>
    /\ Len(branches) = 2
    /\ \A i \in 1 .. Len(branches) : branches[i].name[1] = "r"

\* C20: after a refresh, when there are more visible branches than rows
\* drawn, a truncation line is drawn and its count is the number of
\* visible branches without a row.
C20_TruncationCounts ==
    (pc = "read" /\ Len(branches) > Len(display.rows)) =>
        display.truncated = Len(branches) - Len(display.rows)

\* C21: whenever the loop is about to read an input the redraw flag is
\* clear and branches is the resolver's result for the scope filtered by
\* search_string; an input that changes search_string or the scope is
\* followed by a refresh before the next read; a timeout changes nothing
\* and the loop comes back to the read without rendering.
C21_ReadSeesFreshList ==
    [][/\ pc' = "read" => (~do_render' /\ branches' = Refreshed')
       /\ (pc = "read" /\ (search_string' # search_string
                            \/ branch_query' # branch_query)) =>
              (pc' = "render" /\ do_render')
       /\ Timeout =>
              /\ ~do_render'
              /\ UNCHANGED <<do_run, do_render, do_search, repo, branches,
                             selected_row, search_string, branch_query,
                             display, panic>>
       /\ NoRender => UNCHANGED <<branches, selected_row, display>>]_vars

\* waiting for input with both scope and search string changed: the two
\* branches named r/q, the local one and the remote one
C21_Witness ==
    /\ pc = "read"
    /\ ~do_render
    /\ branch_query = "LocalAndRemote"
    /\ search_string = <<"q">>
    /\ Len(branches) = 2

\* C22: a checkout goes through only when a local branch has exactly the
\* selected name, and then HEAD is that local branch; when no local branch
\* has the name (an item listed from the remote set alone) it fails and
\* the process ends.
C22_CheckoutLocalOnly ==
    [][(Checkout /\ branches # <<>> /\ selected_row < Len(branches)) =>
           LET name  == branches[selected_row + 1].name
               local == \E i \in 1 .. Len(repo.local) :
                            repo.local[i].name = name
           IN  /\ pc' # "panicked" => (local /\ repo'.head = name)
               /\ ~local => (pc' = "panicked"
                             /\ panic' = <<"checkout_failed", name>>)]_vars

\* r/q, a name a local branch has, was checked out; then, in scope Remote,
\* the checkout of the item r/kl, which no local branch has, failed
C22_Witness ==
    /\ pc = "panicked"
    /\ branch_query = "Remote"
    /\ repo.head = <<"r", "/", "q">>
    /\ panic = <<"checkout_failed", <<"r", "/", "k", "l">>>>
    /\ selected_row = 0

====
